---- MODULE Spec2Model ----
(***************************************************************************)
(* Model of the todo / health tRPC API of reactjs-upgrade-playground.      *)
(*                                                                         *)
(* Two todo routers exist: the in-memory router (an array `todos` held in  *)
(* the module, ids from Math.random) and the Prisma router (a table        *)
(* reached through the Prisma client).  A deployment mounts one of them in *)
(* appRouter next to the health router, so `variant` is fixed at start.    *)
(*                                                                         *)
(* The module also holds the form helpers of utils/formHelpers.ts (the     *)
(* FormData extractor, the validation rules, the two preset form actions)  *)
(* and the React 19 playground pages with the demo registry they read.     *)
(***************************************************************************)
EXTENDS Integers, Sequences, FiniteSets, TLC

VARIABLES
    variant,    \* "mem" or "db": which todosRouter appRouter mounts
    todos,      \* in-memory router: the module-level array `todos`
    table,      \* Prisma router: the rows of the Todo table
    now,        \* the clock read by `new Date()`
    last,       \* the last procedure call and the response it produced
    pc,         \* scenario client: number of scenario calls made
    trace,      \* scenario client: the responses received, in order
    reqs,       \* concurrent clients: the requests in flight
    snap,       \* concurrent clients: table when the requests were issued
    formData,   \* form helpers: the submitted FormData, field name -> entry
    applied,    \* form helpers: the helper last applied and what it produced
    url,        \* playground: the path the browser is at
    ready,      \* playground: router.isReady
    trips,      \* playground: card / back round trips made
    click,      \* playground: the element last activated
    lookup,     \* playground: the last getReact19Demo call and its result
    optTodos,   \* UseOptimisticDemo: the state `todos`
    inflight,   \* UseOptimisticDemo: the async actions not yet finished
    activities, \* ActivityComponentDemo: the state `activities`
    timers,     \* ActivityComponentDemo: the timeouts not yet fired
    pair        \* both routers side by side: ids issued, the two responses

vars == <<variant, todos, table, now, last, pc, trace, reqs, snap,
          formData, applied, url, ready, trips, click, lookup,
          optTodos, inflight, activities, timers, pair>>

Nav == <<url, ready, trips, click>>

Labs == <<lookup, optTodos, inflight, activities, timers, pair>>

Front == <<formData, applied, Nav, Labs>>

----------------------------------------------------------------------------
(* Bounds of the model *)

MaxTodos == 2       \* at most this many todos are stored at a time
MaxClock == 2       \* the clock runs over 0..MaxClock

----------------------------------------------------------------------------
(* JavaScript values that travel in payloads and responses *)

Undefined == [type |-> "undefined", v |-> ""]
Str(s) == [type |-> "string", v |-> s]
Num(s) == [type |-> "number", v |-> s]

NullValue == [kind |-> "null"]
UndefinedValue == [kind |-> "undefined"]
RecordValue(r) == [kind |-> "record", rec |-> r]
ListValue(l) == [kind |-> "list", items |-> l]
ErrorValue(c) == [kind |-> "error", code |-> c]

Min(a, b) == IF a < b THEN a ELSE b

\* String.prototype.substr(start, length)
Substr(s, start, length) ==
    IF start >= Len(s) THEN ""
    ELSE SubSeq(s, start + 1, Min(Len(s), start + length))

----------------------------------------------------------------------------
(* Input domains *)

\* texts a client may send: empty, whitespace-only, ordinary
Texts == {"", " ", "Buy milk"}

\* results of Math.random().toString(36): "0" for 0, else "0." and digits
RandomStrings == {"0", "0.a", "0.abcdefghij", "0.abcdefghik"}

SubstrStart == 2
SubstrLength == 9

\* identifiers the database default may generate
DbIds == {"c1", "c2", "c3"}

\* ids a client may send to toggle / delete (known ones and a stranger)
MemIdInputs == {Substr(r, SubstrStart, SubstrLength) : r \in RandomStrings} \cup {"zz"}
DbIdInputs == DbIds \cup {"zz"}

\* payload fields as they arrive: a string, a number, or nothing
TextPayloads == {Str(s) : s \in Texts} \cup {Num("1"), Undefined}
IdPayloads(ids) == {Str(s) : s \in ids} \cup {Num("1"), Undefined}
VoidPayloads == {Undefined, Str("x")}

----------------------------------------------------------------------------
(* Input schemas (zod) *)

\* z.object({ text: z.string().min(1) })
AddInputMinLength == 1
\* the schema without .min(1)
AddSchemaLax(p) == p.type = "string"

AddSchema(p) == p.type = "string" /\ Len(p.v) >= AddInputMinLength

\* z.object({ id: z.string() })
IdSchema(p) == p.type = "string"

\* z.void()
VoidSchema(p) == p.type = "undefined"

----------------------------------------------------------------------------
(* In-memory router: handlers as functions of the array *)

Handled(store, value) == [store |-> store, outcome |-> "ok", value |-> value]
Thrown(store) ==
    [store |-> store, outcome |-> "error", value |-> ErrorValue("INTERNAL_SERVER_ERROR")]

MemGetAll(ts) == Handled(ts, ListValue(ts))

\* Math.random().toString(36).substr(2, 9)
MemNewId(rnd) == Substr(rnd, SubstrStart, SubstrLength)

MemAdd(ts, text, rnd, t) ==
    LET newTodo == [id |-> MemNewId(rnd), text |-> text,
                    completed |-> FALSE, createdAt |-> t]
    IN  Handled(Append(ts, newTodo), RecordValue(newTodo))

\* Array.prototype.findIndex: 0-based index of the first match, else -1
FindIndex(ts, id) ==
    IF \E i \in 1..Len(ts) : ts[i].id = id
    THEN (CHOOSE i \in 1..Len(ts) :
              ts[i].id = id /\ \A j \in 1..(i - 1) : ts[j].id # id) - 1
    ELSE -1

\* Array.prototype.splice(index, 1) applied to the array
Splice(ts, index) ==
    [i \in 1..(Len(ts) - 1) |-> IF i <= index THEN ts[i] ELSE ts[i + 1]]

\* toggle that sets the flag instead of negating it
MemToggleSetsTrue(ts, id) ==
    LET index == FindIndex(ts, id)
    IN  IF index > -1
        THEN LET todo == [ts[index + 1] EXCEPT !.completed = TRUE]
             IN  Handled([ts EXCEPT ![index + 1] = todo], RecordValue(todo))
        ELSE Handled(ts, UndefinedValue)

MemToggle(ts, id) ==
    LET index == FindIndex(ts, id)
    IN  IF index > -1
        THEN LET todo == [ts[index + 1] EXCEPT !.completed = ~ts[index + 1].completed]
             IN  Handled([ts EXCEPT ![index + 1] = todo], RecordValue(todo))
        ELSE Handled(ts, UndefinedValue)

\* delete with todos.splice(index): everything from index on is removed
MemDeleteSpliceRest(ts, id) ==
    LET index == FindIndex(ts, id)
    IN  IF index > -1
        THEN Handled(SubSeq(ts, 1, index), RecordValue(ts[index + 1]))
        ELSE Handled(ts, NullValue)

MemDelete(ts, id) ==
    LET index == FindIndex(ts, id)
    IN  IF index > -1
        THEN Handled(Splice(ts, index), RecordValue(ts[index + 1]))
        ELSE Handled(ts, NullValue)

----------------------------------------------------------------------------
(* Prisma router: the client operations on the Todo table, then the        *)
(* handlers built from them                                                *)

HasRow(tb, id) == \E r \in tb : r.id = id
Row(tb, id) == CHOOSE r \in tb : r.id = id

\* prisma.todo.findMany()
FindMany(tb) == ListValue(tb)

\* prisma.todo.findUnique({ where: { id } })
FindUnique(tb, id) == IF HasRow(tb, id) THEN RecordValue(Row(tb, id)) ELSE NullValue

\* the identifiers the table's id default may produce for a new row
FreshIds(tb) == {i \in DbIds : ~HasRow(tb, i)}

\* prisma.todo.create({ data: { text } }): id, done and createdAt are defaults
Create(tb, text, newId, t) ==
    LET row == [id |-> newId, text |-> text, done |-> FALSE, createdAt |-> t]
    IN  Handled(tb \cup {row}, RecordValue(row))

\* prisma.todo.update({ where: { id }, data: { done } }): throws when no row
Update(tb, id, done) ==
    IF HasRow(tb, id)
    THEN LET row == [Row(tb, id) EXCEPT !.done = done]
         IN  Handled((tb \ {Row(tb, id)}) \cup {row}, RecordValue(row))
    ELSE Thrown(tb)

\* prisma.todo.delete({ where: { id } }): throws when no row
Delete(tb, id) ==
    IF HasRow(tb, id)
    THEN Handled(tb \ {Row(tb, id)}, RecordValue(Row(tb, id)))
    ELSE Thrown(tb)

DbGetAll(tb) == Handled(tb, FindMany(tb))

DbAdd(tb, text, newId, t) == Create(tb, text, newId, t)

\* update that writes the flag back as it was read
DbToggleWriteSame(tb, id, todo) ==
    IF todo = NullValue THEN Handled(tb, NullValue)
    ELSE Update(tb, id, todo.rec.done)

\* update that negates the flag the row holds at the time of the write
DbToggleWriteFresh(tb, id, todo) ==
    IF todo = NullValue \/ ~HasRow(tb, id) THEN Handled(tb, NullValue)
    ELSE Update(tb, id, ~Row(tb, id).done)

\* second half of toggle: `todo` is what findUnique returned
DbToggleWrite(tb, id, todo) ==
    IF todo = NullValue THEN Handled(tb, NullValue)
    ELSE Update(tb, id, ~todo.rec.done)

DbToggle(tb, id) == DbToggleWrite(tb, id, FindUnique(tb, id))

DbDelete(tb, id) == Delete(tb, id)

----------------------------------------------------------------------------
(* Health router *)

HealthStatusDown == [status |-> "DOWN"]

HealthStatus == [status |-> "OK"]

----------------------------------------------------------------------------
(* Form helpers (formHelpers.ts): strings as JavaScript handles them *)

Whitespace == {" ", "\t", "\n"}

CharAt(s, i) == SubSeq(s, i, i)

RECURSIVE TrimStart(_)
TrimStart(s) ==
    IF Len(s) > 0 /\ CharAt(s, 1) \in Whitespace
    THEN TrimStart(SubSeq(s, 2, Len(s)))
    ELSE s

RECURSIVE TrimEnd(_)
TrimEnd(s) ==
    IF Len(s) > 0 /\ CharAt(s, Len(s)) \in Whitespace
    THEN TrimEnd(SubSeq(s, 1, Len(s) - 1))
    ELSE s

Trim(s) == TrimEnd(TrimStart(s))

Includes(s, c) == \E i \in 1..Len(s) : CharAt(s, i) = c

Digits == {"0", "1", "2", "3", "4", "5", "6", "7", "8", "9"}

DigitValue(c) ==
    CASE c = "0" -> 0 [] c = "1" -> 1 [] c = "2" -> 2 [] c = "3" -> 3
      [] c = "4" -> 4 [] c = "5" -> 5 [] c = "6" -> 6 [] c = "7" -> 7
      [] c = "8" -> 8 [] c = "9" -> 9

AllDigits(s) == Len(s) > 0 /\ \A i \in 1..Len(s) : CharAt(s, i) \in Digits

RECURSIVE DigitsValue(_)
DigitsValue(s) ==
    IF Len(s) = 0 THEN 0
    ELSE 10 * DigitsValue(SubSeq(s, 1, Len(s) - 1))
         + DigitValue(CharAt(s, Len(s)))

(* Number(value): the string-to-number conversion, for decimal integer     *)
(* literals.  Surrounding whitespace is dropped, the empty string converts *)
(* to 0, anything that is not a literal converts to NaN.                   *)
NaN == [nan |-> TRUE, n |-> 0]
Finite(k) == [nan |-> FALSE, n |-> k]

Unsigned(s, sign) ==
    IF AllDigits(s) THEN Finite(sign * DigitsValue(s)) ELSE NaN

Number(value) ==
    LET t == Trim(value) IN
    IF t = "" THEN Finite(0)
    ELSE IF CharAt(t, 1) = "-" THEN Unsigned(SubSeq(t, 2, Len(t)), -1)
    ELSE IF CharAt(t, 1) = "+" THEN Unsigned(SubSeq(t, 2, Len(t)), 1)
    ELSE Unsigned(t, 1)

IsNaN(num) == num.nan

----------------------------------------------------------------------------
(* FormData and createFormDataExtractor *)

Null == [type |-> "null", v |-> ""]
Bool(b) == [type |-> "boolean", v |-> b]
File == [type |-> "file", v |-> "upload.bin"]

FieldNames == {"name", "email", "message"}

FieldTexts ==
    {"", "   ", "on", "true", "-42 ", "1234567890", "bob@mail.com"}

(* what a field of a submitted form can hold: nothing, a file, a string *)
Entries == {Null, File} \cup {Str(s) : s \in FieldTexts}

Forms == [FieldNames -> Entries]

NoForm == [n \in FieldNames |-> Null]

(* formData.get(name): the entry of the field, null when there is none *)
Get(fd, name) == IF name \in DOMAIN fd THEN fd[name] ELSE Null

Returns(value) == [threw |-> FALSE, value |-> value]
Throws(message) == [threw |-> TRUE, value |-> Str(message)]

ExtractStringNoCheck(fd, name) == Returns(Get(fd, name))

ExtractString(fd, name) ==
    LET value == Get(fd, name) IN
    IF value.type # "string" THEN Throws("Missing field: " \o name)
    ELSE Returns(value)

ExtractNumber(fd, name) ==
    LET value == Get(fd, name) IN
    IF value.type # "string" THEN Throws("Missing field: " \o name)
    ELSE LET num == Number(value.v) IN
         IF IsNaN(num) THEN Throws("Invalid number for field: " \o name)
         ELSE Returns(Num(num.n))

ExtractBooleanTruthy(fd, name) ==
    Returns(Bool(Get(fd, name).type = "string" /\ Get(fd, name).v # ""))

ExtractBoolean(fd, name) ==
    LET value == Get(fd, name) IN
    Returns(Bool(value = Str("on") \/ value = Str("true")))

ExtractOptionalString(fd, name) ==
    LET value == Get(fd, name) IN
    IF value.type = "string" /\ Len(value.v) > 0 THEN Returns(value)
    ELSE Returns(Null)

ExtractOptionalNumber(fd, name) ==
    LET value == Get(fd, name) IN
    IF value.type # "string" \/ Len(value.v) = 0 THEN Returns(Null)
    ELSE LET num == Number(value.v) IN
         IF IsNaN(num) THEN Returns(Null) ELSE Returns(Num(num.n))

Extractors == {"string", "number", "boolean", "optional.string",
               "optional.number"}

Extract(kind, fd, name) ==
    CASE kind = "string" -> ExtractString(fd, name)
      [] kind = "number" -> ExtractNumber(fd, name)
      [] kind = "boolean" -> ExtractBoolean(fd, name)
      [] kind = "optional.string" -> ExtractOptionalString(fd, name)
      [] kind = "optional.number" -> ExtractOptionalNumber(fd, name)

----------------------------------------------------------------------------
(* createValidationRules and validateField *)

(* /^[^\s@]+@[^\s@]+\.[^\s@]+$/ : one "@", no whitespace, and a "." with   *)
(* something on both sides after the "@"                                   *)
Plain(s) ==
    Len(s) > 0 /\ \A i \in 1..Len(s) : CharAt(s, i) \notin Whitespace \cup {"@"}

EmailPattern(s) ==
    \E a \in 1..Len(s) : \E d \in 1..Len(s) :
        /\ a < d
        /\ CharAt(s, a) = "@"
        /\ CharAt(s, d) = "."
        /\ Plain(SubSeq(s, 1, a - 1))
        /\ Plain(SubSeq(s, a + 1, d - 1))
        /\ Plain(SubSeq(s, d + 1, Len(s)))

RuleRequired(fieldName) ==
    [kind |-> "required", n |-> 0, other |-> "",
     message |-> fieldName \o " is required"]

RuleEmail ==
    [kind |-> "email", n |-> 0, other |-> "",
     message |-> "Please enter a valid email address"]

RuleMinLength(length, fieldName) ==
    [kind |-> "minLength", n |-> length, other |-> "",
     message |-> fieldName \o " must be at least " \o ToString(length)
                 \o " characters"]

RuleMaxLength(length, fieldName) ==
    [kind |-> "maxLength", n |-> length, other |-> "",
     message |-> fieldName \o " must be at most " \o ToString(length)
                 \o " characters"]

(* pattern(/^[0-9]+$/, fieldName) *)
RulePattern(fieldName) ==
    [kind |-> "pattern", n |-> 0, other |-> "",
     message |-> fieldName \o " format is invalid"]

RuleMinValue(min, fieldName) ==
    [kind |-> "minValue", n |-> min, other |-> "",
     message |-> fieldName \o " must be at least " \o ToString(min)]

RuleMatch(otherValue, fieldName, otherFieldName) ==
    [kind |-> "match", n |-> 0, other |-> otherValue,
     message |-> fieldName \o " must match " \o otherFieldName]

(* rule.validate(value) *)
ValidateStrictBounds(rule, value) ==
    CASE rule.kind = "required" -> Len(Trim(value)) > 0
      [] rule.kind = "email" -> EmailPattern(value)
      [] rule.kind = "minLength" -> Len(value) > rule.n
      [] rule.kind = "maxLength" -> Len(value) < rule.n
      [] rule.kind = "pattern" -> AllDigits(value)
      [] rule.kind = "minValue" ->
            ~IsNaN(Number(value)) /\ Number(value).n > rule.n
      [] rule.kind = "match" -> value = rule.other

Validate(rule, value) ==
    CASE rule.kind = "required" -> Len(Trim(value)) > 0
      [] rule.kind = "email" -> EmailPattern(value)
      [] rule.kind = "minLength" -> Len(value) >= rule.n
      [] rule.kind = "maxLength" -> Len(value) <= rule.n
      [] rule.kind = "pattern" -> AllDigits(value)
      [] rule.kind = "minValue" ->
            ~IsNaN(Number(value)) /\ Number(value).n >= rule.n
      [] rule.kind = "match" -> value = rule.other

RECURSIVE ValidateField(_, _)

ValidateFieldLastFailure(value, rules) ==
    IF rules = <<>> THEN Null
    ELSE IF ValidateField(value, Tail(rules)) # Null
         THEN ValidateField(value, Tail(rules))
    ELSE IF ~Validate(Head(rules), value) THEN Str(Head(rules).message)
    ELSE Null

ValidateField(value, rules) ==
    IF rules = <<>> THEN Null
    ELSE IF ~Validate(Head(rules), value) THEN Str(Head(rules).message)
    ELSE ValidateField(value, Tail(rules))

----------------------------------------------------------------------------
(* FormState and the preset form actions *)

MinMessageLength == 10

(* FormState: `errors` and `data` are optional, each a map kept as a set   *)
(* of <<key, value>> pairs                                                  *)
FormState(success, message, hasErrors, errors, hasData, data) ==
    [success |-> success, message |-> message, hasErrors |-> hasErrors,
     errors |-> errors, hasData |-> hasData, data |-> data]

Invalid(message, errors) == FormState(FALSE, message, TRUE, errors, FALSE, {})
Failed(message) == FormState(FALSE, message, FALSE, {}, FALSE, {})
Succeeded(message, data) == FormState(TRUE, message, FALSE, {}, TRUE, data)

(* completion of a block that stopped at `await new Promise(setTimeout)` *)
Awaiting == [type |-> "await", v |-> ""]

ContactErrorsExclusive(name, email, message) ==
    {<<"name", "Name is required">> : x \in {1} \cap
        (IF Trim(name) = "" THEN {1} ELSE {})}
    \cup {<<"email", "Invalid email address">> : x \in {1} \cap
        (IF ~Includes(email, "@") THEN {1} ELSE {})}
    \cup {<<"message", "Message must be at least 10 characters">> :
        x \in {1} \cap
        (IF Len(message) <= MinMessageLength THEN {1} ELSE {})}

ContactErrors(name, email, message) ==
    {<<"name", "Name is required">> : x \in {1} \cap
        (IF Trim(name) = "" THEN {1} ELSE {})}
    \cup {<<"email", "Invalid email address">> : x \in {1} \cap
        (IF ~Includes(email, "@") THEN {1} ELSE {})}
    \cup {<<"message", "Message must be at least 10 characters">> :
        x \in {1} \cap
        (IF Len(message) < MinMessageLength THEN {1} ELSE {})}

(* the try block of contactFormAction up to its first return, throw or await *)
ContactFormTry(fd) ==
    LET name == ExtractString(fd, "name")
        email == ExtractString(fd, "email")
        message == ExtractString(fd, "message")
    IN
    IF name.threw THEN name
    ELSE IF email.threw THEN email
    ELSE IF message.threw THEN message
    ELSE LET errors == ContactErrors(name.value.v, email.value.v,
                                     message.value.v) IN
         IF errors # {}
         THEN Returns(Invalid("Please fix the errors below", errors))
         ELSE Returns(Awaiting)

ContactFormNoCatch(c) == c

ContactFormCatch(c) == IF c.threw THEN Returns(Failed(c.value.v)) ELSE c

(* the return after the await *)
ContactFormResume(fd) ==
    Succeeded("Thank you " \o fd["name"].v
              \o "! We received your message and will reply soon.",
              {<<"name", fd["name"].v>>, <<"email", fd["email"].v>>,
               <<"message", fd["message"].v>>})

(* the try block of newsletterAction; a File is truthy and has no includes *)
NewsletterTryNoAt(fd) ==
    LET email == Get(fd, "email") IN
    IF email.type = "null" \/ email = Str("")
    THEN Returns(Invalid("Please enter a valid email address",
                         {<<"email", "Invalid email">>}))
    ELSE IF email.type # "string"
    THEN Throws("email.includes is not a function")
    ELSE Returns(Awaiting)

NewsletterTry(fd) ==
    LET email == Get(fd, "email") IN
    IF email.type = "null" \/ email = Str("")
    THEN Returns(Invalid("Please enter a valid email address",
                         {<<"email", "Invalid email">>}))
    ELSE IF email.type # "string"
    THEN Throws("email.includes is not a function")
    ELSE IF ~Includes(email.v, "@")
    THEN Returns(Invalid("Please enter a valid email address",
                         {<<"email", "Invalid email">>}))
    ELSE Returns(Awaiting)

NewsletterCatch(c) ==
    IF c.threw THEN Returns(Failed("Failed to subscribe. Please try again."))
    ELSE c

NewsletterResume(fd) ==
    Succeeded("You've been subscribed! Check " \o fd["email"].v
              \o " for confirmation.",
              {<<"email", fd["email"].v>>})

----------------------------------------------------------------------------
(* The helpers applied to a submitted form *)

MaxRules == 2       \* validateField is given at most this many rules

ExtractNames == FieldNames \cup {"age"}

RuleSet ==
    {RuleRequired("Name"), RuleEmail, RuleMinLength(4, "Name"),
     RuleMaxLength(4, "Name"), RulePattern("Code"), RuleMinValue(0, "Age"),
     RuleMatch("on", "Confirm", "Password")}

RuleLists == UNION {[1..k -> RuleSet] : k \in 0..MaxRules}

NoApplied ==
    [fn |-> "none", name |-> "", value |-> "", rules |-> <<>>,
     status |-> "none", result |-> Null]

Applied(fn, name, value, rules, status, result) ==
    [fn |-> fn, name |-> name, value |-> value, rules |-> rules,
     status |-> status, result |-> result]

----------------------------------------------------------------------------
(* React 19 playground: the demo registry and the pages that read it *)

Demo(slug, title) == [slug |-> slug, title |-> title]

React19DemoRegistryRepeated ==
    << Demo("custom-form", "Custom Form Component"),
       Demo("use-optimistic", "useOptimistic Todos"),
       Demo("custom-form", "Custom Form (copy)") >>

react19DemoRegistry ==
    << Demo("use-action-state-basic", "useActionState Basics"),
       Demo("use-action-state-advanced", "useActionState Advanced"),
       Demo("use-optimistic", "useOptimistic Todos"),
       Demo("use-transition", "useTransition Search"),
       Demo("activity-component", "Activity Feed Pattern"),
       Demo("use-effect-event", "useEffectEvent Logging"),
       Demo("partial-pre-rendering", "Partial Pre-rendering"),
       Demo("server-components-awareness", "Server Components Awareness"),
       Demo("custom-form", "Custom Form Component"),
       Demo("use-api-promise-resolver", "use() API - Promise Resolver"),
       Demo("resource-loading-metadata", "Resource Loading & Metadata") >>

NoDemo == Demo("", "")

(* react19DemoRegistry.find: the first demo with the slug, or undefined *)
(* `slug` is a string or undefined; !slug holds for undefined and for ""  *)
GetReact19DemoByTitle(slug) ==
    IF slug = Undefined \/ slug.v = "" THEN NoDemo
    ELSE IF \E i \in DOMAIN react19DemoRegistry :
                react19DemoRegistry[i].title = slug.v
    THEN react19DemoRegistry[
             CHOOSE i \in DOMAIN react19DemoRegistry :
                 /\ react19DemoRegistry[i].title = slug.v
                 /\ \A j \in 1..(i - 1) :
                       react19DemoRegistry[j].title # slug.v]
    ELSE NoDemo

getReact19Demo(slug) ==
    IF slug = Undefined \/ slug.v = "" THEN NoDemo
    ELSE IF \E i \in DOMAIN react19DemoRegistry :
                react19DemoRegistry[i].slug = slug.v
    THEN react19DemoRegistry[
             CHOOSE i \in DOMAIN react19DemoRegistry :
                 /\ react19DemoRegistry[i].slug = slug.v
                 /\ \A j \in 1..(i - 1) :
                       react19DemoRegistry[j].slug # slug.v]
    ELSE NoDemo

HubPath == "/react19-playground"

(* DemoCard: href={`/react19-playground/${demo.slug}`} *)
CardHref(demo) == HubPath \o "/" \o demo.slug

(* the route /react19-playground/[slug]: the segment after the hub path *)
IsDetailPath(path) ==
    /\ Len(path) > Len(HubPath) + 1
    /\ SubSeq(path, 1, Len(HubPath) + 1) = HubPath \o "/"
    /\ \A i \in (Len(HubPath) + 2)..Len(path) : SubSeq(path, i, i) # "/"

QuerySlug(path) == SubSeq(path, Len(HubPath) + 2, Len(path))

Card(demo) == [slug |-> demo.slug, title |-> demo.title, href |-> CardHref(demo)]

Page(kind, h1, grid, cards, backLink) ==
    [kind |-> kind, h1 |-> h1, grid |-> grid, cards |-> cards,
     backLink |-> backLink]

React19PlaygroundPage ==
    Page("hub", "React 19.2 Features Playground", TRUE,
         [i \in DOMAIN react19DemoRegistry |-> Card(react19DemoRegistry[i])],
         FALSE)

React19DemoDetailPage(isReady, path) ==
    IF ~isReady THEN Page("loading", "", FALSE, <<>>, FALSE)
    ELSE LET slug == IF isReady THEN Str(QuerySlug(path)) ELSE Undefined
             demo == getReact19Demo(slug)
         IN
         IF demo = NoDemo
         THEN Page("notfound", "Demo not found", FALSE, <<>>, FALSE)
         ELSE Page("detail", demo.title, FALSE, <<>>, TRUE)

(* what the browser shows at a path *)
Render(isReady, path) ==
    IF path = HubPath THEN React19PlaygroundPage
    ELSE React19DemoDetailPage(isReady, path)

NoClick == [el |-> "none", slug |-> "", title |-> ""]

NoLookup == [called |-> FALSE, slug |-> Undefined, demo |-> NoDemo]

----------------------------------------------------------------------------
(* UseOptimisticDemo: the todos the component mounts with *)

OptimisticItem(id, text, completed) ==
    [id |-> id, text |-> text, completed |-> completed, pending |-> FALSE]

InitialTodos ==
    << OptimisticItem("1", "Learn React 19.2", FALSE),
       OptimisticItem("2", "Build playground", TRUE) >>

----------------------------------------------------------------------------
(* Procedure calls: the input schema is parsed first, the handler runs     *)
(* only on a payload the schema accepts                                    *)

NoCall ==
    [proc |-> "none", input |-> Undefined, ran |-> FALSE, outcome |-> "ok",
     value |-> UndefinedValue, pre |-> UndefinedValue]

Response(proc, input, h, pre) ==
    [proc |-> proc, input |-> input, ran |-> TRUE, outcome |-> h.outcome,
     value |-> h.value, pre |-> pre]

Rejected(proc, input) ==
    [proc |-> proc, input |-> input, ran |-> FALSE, outcome |-> "error",
     value |-> ErrorValue("BAD_REQUEST"), pre |-> UndefinedValue]

\* nothing was sent to the two routers yet
NoPair == [ids |-> {}, mem |-> NoCall, db |-> NoCall]

\* the todo the in-memory lookup finds, as a response value
MemFound(ts, id) ==
    IF FindIndex(ts, id) > -1 THEN RecordValue(ts[FindIndex(ts, id) + 1])
    ELSE UndefinedValue

Init ==
    /\ variant \in {"mem", "db"}
    /\ todos = <<>>
    /\ table = {}
    /\ now = 0
    /\ last = NoCall
    /\ pc = 0
    /\ trace = <<>>
    /\ reqs = <<>>
    /\ snap = {}
    /\ formData = NoForm
    /\ applied = NoApplied
    /\ url = HubPath
    /\ ready = TRUE
    /\ trips = 0
    /\ click = NoClick
    /\ lookup = NoLookup
    /\ optTodos = InitialTodos
    /\ inflight = <<>>
    /\ activities = <<>>
    /\ timers = <<>>
    /\ pair = NoPair

Clients == <<pc, trace, reqs, snap>>

\* health.status arriving at time t with payload p
HealthStatusProc(p, t) ==
    /\ now' = t
    /\ last' = IF VoidSchema(p)
               THEN Response("health.status", p,
                             Handled(<<>>, RecordValue(HealthStatus)), UndefinedValue)
               ELSE Rejected("health.status", p)
    /\ UNCHANGED <<todos, table>>

\* the procedures of the in-memory router
MemGetAllProc(t) ==
    /\ now' = t
    /\ todos' = MemGetAll(todos).store
    /\ last' = Response("todos.getAll", Undefined, MemGetAll(todos), UndefinedValue)
    /\ UNCHANGED table

MemAddProc(p, rnd, t) ==
    /\ now' = t
    /\ IF AddSchema(p)
       THEN /\ todos' = MemAdd(todos, p.v, rnd, t).store
            /\ last' = Response("todos.add", p, MemAdd(todos, p.v, rnd, t), UndefinedValue)
       ELSE /\ todos' = todos
            /\ last' = Rejected("todos.add", p)
    /\ UNCHANGED table

MemToggleProc(p, t) ==
    /\ now' = t
    /\ IF IdSchema(p)
       THEN /\ todos' = MemToggle(todos, p.v).store
            /\ last' = Response("todos.toggle", p, MemToggle(todos, p.v),
                                MemFound(todos, p.v))
       ELSE /\ todos' = todos
            /\ last' = Rejected("todos.toggle", p)
    /\ UNCHANGED table

MemDeleteProc(p, t) ==
    /\ now' = t
    /\ IF IdSchema(p)
       THEN /\ todos' = MemDelete(todos, p.v).store
            /\ last' = Response("todos.delete", p, MemDelete(todos, p.v),
                                MemFound(todos, p.v))
       ELSE /\ todos' = todos
            /\ last' = Rejected("todos.delete", p)
    /\ UNCHANGED table

\* the procedures of the Prisma router
DbGetAllProc(t) ==
    /\ now' = t
    /\ table' = DbGetAll(table).store
    /\ last' = Response("todos.getAll", Undefined, DbGetAll(table), UndefinedValue)
    /\ UNCHANGED todos

DbAddProc(p, newId, t) ==
    /\ now' = t
    /\ IF AddSchema(p)
       THEN /\ table' = DbAdd(table, p.v, newId, t).store
            /\ last' = Response("todos.add", p, DbAdd(table, p.v, newId, t), UndefinedValue)
       ELSE /\ table' = table
            /\ last' = Rejected("todos.add", p)
    /\ UNCHANGED todos

DbToggleProc(p, t) ==
    /\ now' = t
    /\ IF IdSchema(p)
       THEN /\ table' = DbToggle(table, p.v).store
            /\ last' = Response("todos.toggle", p, DbToggle(table, p.v),
                                FindUnique(table, p.v))
       ELSE /\ table' = table
            /\ last' = Rejected("todos.toggle", p)
    /\ UNCHANGED todos

DbDeleteProc(p, t) ==
    /\ now' = t
    /\ IF IdSchema(p)
       THEN /\ table' = DbDelete(table, p.v).store
            /\ last' = Response("todos.delete", p, DbDelete(table, p.v),
                                FindUnique(table, p.v))
       ELSE /\ table' = table
            /\ last' = Rejected("todos.delete", p)
    /\ UNCHANGED todos

----------------------------------------------------------------------------
(* Calls arriving one after another, with any payload *)

HealthStatusCall ==
    /\ \E p \in VoidPayloads, t \in now..MaxClock : HealthStatusProc(p, t)
    /\ UNCHANGED <<Front, variant, Clients>>

MemGetAllCall ==
    /\ variant = "mem"
    /\ \E t \in now..MaxClock : MemGetAllProc(t)
    /\ UNCHANGED <<Front, variant, Clients>>

MemAddCall ==
    /\ variant = "mem"
    /\ Len(todos) < MaxTodos
    /\ \E p \in TextPayloads, rnd \in RandomStrings, t \in now..MaxClock :
          MemAddProc(p, rnd, t)
    /\ UNCHANGED <<Front, variant, Clients>>

MemToggleCall ==
    /\ variant = "mem"
    /\ \E p \in IdPayloads(MemIdInputs), t \in now..MaxClock : MemToggleProc(p, t)
    /\ UNCHANGED <<Front, variant, Clients>>

MemDeleteCall ==
    /\ variant = "mem"
    /\ \E p \in IdPayloads(MemIdInputs), t \in now..MaxClock : MemDeleteProc(p, t)
    /\ UNCHANGED <<Front, variant, Clients>>

DbGetAllCall ==
    /\ variant = "db"
    /\ \E t \in now..MaxClock : DbGetAllProc(t)
    /\ UNCHANGED <<Front, variant, Clients>>

DbAddCall ==
    /\ variant = "db"
    /\ Cardinality(table) < MaxTodos
    /\ \E p \in TextPayloads, newId \in FreshIds(table), t \in now..MaxClock :
          DbAddProc(p, newId, t)
    /\ UNCHANGED <<Front, variant, Clients>>

DbToggleCall ==
    /\ variant = "db"
    /\ \E p \in IdPayloads(DbIdInputs), t \in now..MaxClock : DbToggleProc(p, t)
    /\ UNCHANGED <<Front, variant, Clients>>

DbDeleteCall ==
    /\ variant = "db"
    /\ \E p \in IdPayloads(DbIdInputs), t \in now..MaxClock : DbDeleteProc(p, t)
    /\ UNCHANGED <<Front, variant, Clients>>

Next ==
    \/ HealthStatusCall
    \/ MemGetAllCall
    \/ MemAddCall
    \/ MemToggleCall
    \/ MemDeleteCall
    \/ DbGetAllCall
    \/ DbAddCall
    \/ DbToggleCall
    \/ DbDeleteCall

Spec == Init /\ [][Next]_vars

----------------------------------------------------------------------------
(* Scenario client: from the empty collection it calls add("Buy milk"),    *)
(* getAll, toggle(X), delete(X), getAll, X being the id add returned, and  *)
(* keeps the responses in `trace`.                                         *)

ScenarioText == "Buy milk"

\* the id of the record the first scenario call returned
ScenarioX == trace[1].rec.id

Received == pc' = pc + 1 /\ trace' = Append(trace, last'.value)

ScenarioAdd ==
    /\ pc = 0
    /\ \E t \in now..MaxClock :
          IF variant = "mem"
          THEN \E rnd \in RandomStrings : MemAddProc(Str(ScenarioText), rnd, t)
          ELSE \E newId \in FreshIds(table) : DbAddProc(Str(ScenarioText), newId, t)
    /\ Received
    /\ UNCHANGED <<Front, variant, reqs, snap>>

ScenarioGetAll ==
    /\ pc \in {1, 4}
    /\ \E t \in now..MaxClock :
          IF variant = "mem" THEN MemGetAllProc(t) ELSE DbGetAllProc(t)
    /\ Received
    /\ UNCHANGED <<Front, variant, reqs, snap>>

ScenarioToggle ==
    /\ pc = 2
    /\ \E t \in now..MaxClock :
          IF variant = "mem" THEN MemToggleProc(Str(ScenarioX), t)
                             ELSE DbToggleProc(Str(ScenarioX), t)
    /\ Received
    /\ UNCHANGED <<Front, variant, reqs, snap>>

ScenarioDelete ==
    /\ pc = 3
    /\ \E t \in now..MaxClock :
          IF variant = "mem" THEN MemDeleteProc(Str(ScenarioX), t)
                             ELSE DbDeleteProc(Str(ScenarioX), t)
    /\ Received
    /\ UNCHANGED <<Front, variant, reqs, snap>>

ScenarioNext ==
    \/ ScenarioAdd
    \/ ScenarioGetAll
    \/ ScenarioToggle
    \/ ScenarioDelete

SpecScenario == Init /\ [][ScenarioNext]_vars

----------------------------------------------------------------------------
(* Concurrent clients: two toggle / delete requests are in flight at once. *)
(* A handler runs without interruption up to its first await: every        *)
(* handler of the in-memory router and getAll / add / delete of the Prisma *)
(* router are one step; toggle of the Prisma router is two steps, the      *)
(* findUnique and, after the await, the update.                            *)

RaceClients == {"A", "B"}

RaceIdInputs == IF variant = "mem" THEN MemIdInputs ELSE DbIdInputs
RaceCalls == {"todos.toggle", "todos.delete"} \X RaceIdInputs

Store == IF variant = "mem" THEN todos ELSE table

NewRequest(call) ==
    [proc |-> call[1], id |-> call[2], stage |-> "issued",
     todo |-> UndefinedValue, resp |-> UndefinedValue, stale |-> FALSE]

\* the handler of a request run from start to end on `store`
RunHandler(store, r) ==
    IF variant = "mem"
    THEN IF r.proc = "todos.toggle" THEN MemToggle(store, r.id) ELSE MemDelete(store, r.id)
    ELSE IF r.proc = "todos.toggle" THEN DbToggle(store, r.id) ELSE DbDelete(store, r.id)

TwoSteps(r) == variant = "db" /\ r.proc = "todos.toggle"

\* request c ends with outcome h; a request that has read the row h wrote
\* or removed now holds a stale copy
Finish(c, h) ==
    /\ IF variant = "mem" THEN todos' = h.store /\ UNCHANGED table
                          ELSE table' = h.store /\ UNCHANGED todos
    /\ reqs' = [d \in RaceClients |->
                  IF d = c
                  THEN [reqs[d] EXCEPT !.stage = "done", !.resp = h.value]
                  ELSE IF /\ reqs[d].stage = "read"
                          /\ reqs[d].todo.kind = "record"
                          /\ reqs[d].id = reqs[c].id
                          /\ h.store # Store
                       THEN [reqs[d] EXCEPT !.stale = TRUE]
                       ELSE reqs[d]]

RaceIssue ==
    /\ reqs = <<>>
    /\ \E calls \in [RaceClients -> RaceCalls] :
          /\ \A c \in RaceClients : IdSchema(Str(calls[c][2]))
          /\ reqs' = [c \in RaceClients |-> NewRequest(calls[c])]
    /\ snap' = Store
    /\ UNCHANGED <<Front, variant, todos, table, now, last, pc, trace>>

RaceRun ==
    /\ reqs # <<>>
    /\ \E c \in RaceClients :
          /\ reqs[c].stage = "issued"
          /\ ~TwoSteps(reqs[c])
          /\ Finish(c, RunHandler(Store, reqs[c]))
    /\ UNCHANGED <<Front, variant, now, last, pc, trace, snap>>

RaceFindUnique ==
    /\ reqs # <<>>
    /\ \E c \in RaceClients :
          /\ reqs[c].stage = "issued"
          /\ TwoSteps(reqs[c])
          /\ reqs' = [reqs EXCEPT ![c].stage = "read",
                                  ![c].todo = FindUnique(table, reqs[c].id)]
    /\ UNCHANGED <<Front, variant, todos, table, now, last, pc, trace, snap>>

RaceUpdate ==
    /\ reqs # <<>>
    /\ \E c \in RaceClients :
          /\ reqs[c].stage = "read"
          /\ Finish(c, DbToggleWrite(table, reqs[c].id, reqs[c].todo))
    /\ UNCHANGED <<Front, variant, now, last, pc, trace, snap>>

RaceCollect ==
    /\ reqs # <<>>
    /\ \A c \in RaceClients : reqs[c].stage = "done"
    /\ reqs' = <<>>
    /\ snap' = {}
    /\ UNCHANGED <<Front, variant, todos, table, now, last, pc, trace>>

RaceSetup ==
    /\ reqs = <<>>
    /\ (MemAddCall \/ DbAddCall)

RaceNext ==
    \/ RaceSetup
    \/ RaceIssue
    \/ RaceRun
    \/ RaceFindUnique
    \/ RaceUpdate
    \/ RaceCollect

SpecRace == Init /\ [][RaceNext]_vars

\* what the requests in flight return, and the collection they leave, when
\* their handlers run one after another in some order, from `store`
RECURSIVE SeqRuns(_, _, _)
SeqRuns(store, pending, resp) ==
    IF pending = {} THEN {[final |-> store, resp |-> resp]}
    ELSE UNION {SeqRuns(RunHandler(store, reqs[c]).store, pending \ {c},
                        [resp EXCEPT ![c] = RunHandler(store, reqs[c]).value])
                : c \in pending}

SeqOutcomes == SeqRuns(snap, RaceClients, [c \in RaceClients |-> UndefinedValue])

RaceDone == reqs # <<>> /\ \A c \in RaceClients : reqs[c].stage = "done"
RaceOutcome == [final |-> Store, resp |-> [c \in RaceClients |-> reqs[c].resp]]

----------------------------------------------------------------------------
(* Concurrent clients of the in-memory router: getAll, add, toggle and     *)
(* delete requests in flight at once.  The handlers are async functions    *)
(* without an await, so a handler that has started runs to its return      *)
(* before any other handler starts.                                        *)

MemRaceText == "Buy milk"

MemRaceCalls ==
    {[proc |-> "todos.getAll", arg |-> "", rnd |-> "0"]}
    \cup {[proc |-> "todos.add", arg |-> MemRaceText, rnd |-> r] : r \in RandomStrings}
    \cup {[proc |-> p, arg |-> i, rnd |-> "0"] :
             p \in {"todos.toggle", "todos.delete"}, i \in MemIdInputs}

MemNewRequest(call) ==
    [proc |-> call.proc, arg |-> call.arg, rnd |-> call.rnd, stage |-> "issued",
     todo |-> UndefinedValue, resp |-> UndefinedValue]

MemSchemaAccepts(call) ==
    CASE call.proc = "todos.add" -> AddSchema(Str(call.arg))
      [] call.proc \in {"todos.toggle", "todos.delete"} -> IdSchema(Str(call.arg))
      [] OTHER -> TRUE

\* the handler of request r run from start to end on the array ts
MemRunHandler(ts, r) ==
    CASE r.proc = "todos.getAll" -> MemGetAll(ts)
      [] r.proc = "todos.add" -> MemAdd(ts, r.arg, r.rnd, now)
      [] r.proc = "todos.toggle" -> MemToggle(ts, r.arg)
      [] OTHER -> MemDelete(ts, r.arg)

\* toggle with an await between todos.find and the write: the first step
\* keeps what find returned, the second writes the negation of that copy
MemAdvanceAwaitInToggle(ts, r) ==
    IF r.proc = "todos.toggle" /\ r.stage = "issued"
    THEN [store |-> ts, req |-> [r EXCEPT !.stage = "read", !.todo = MemFound(ts, r.arg)]]
    ELSE IF r.stage = "read"
    THEN IF r.todo.kind = "record"
         THEN LET flipped == [r.todo.rec EXCEPT !.completed = ~r.todo.rec.completed]
                  index == FindIndex(ts, r.arg)
              IN  [store |-> IF index > -1 THEN [ts EXCEPT ![index + 1] = flipped] ELSE ts,
                   req |-> [r EXCEPT !.stage = "done", !.resp = RecordValue(flipped)]]
         ELSE [store |-> ts, req |-> [r EXCEPT !.stage = "done", !.resp = UndefinedValue]]
    ELSE [store |-> MemRunHandler(ts, r).store,
          req |-> [r EXCEPT !.stage = "done", !.resp = MemRunHandler(ts, r).value]]

\* request r runs until its handler awaits or returns: no in-memory handler
\* awaits, so it runs to its return
MemAdvance(ts, r) ==
    [store |-> MemRunHandler(ts, r).store,
     req |-> [r EXCEPT !.stage = "done", !.resp = MemRunHandler(ts, r).value]]

AddsIn(calls) == Cardinality({c \in RaceClients : calls[c].proc = "todos.add"})

MemRaceIssue ==
    /\ reqs = <<>>
    /\ \E calls \in [RaceClients -> MemRaceCalls] :
          /\ \A c \in RaceClients : MemSchemaAccepts(calls[c])
          /\ Len(todos) + AddsIn(calls) <= MaxTodos
          /\ reqs' = [c \in RaceClients |-> MemNewRequest(calls[c])]
    /\ snap' = todos
    /\ UNCHANGED <<Front, variant, todos, table, now, last, pc, trace>>

MemRaceStep ==
    /\ reqs # <<>>
    /\ \E c \in RaceClients :
          /\ reqs[c].stage # "done"
          /\ todos' = MemAdvance(todos, reqs[c]).store
          /\ reqs' = [reqs EXCEPT ![c] = MemAdvance(todos, reqs[c]).req]
    /\ UNCHANGED <<Front, variant, table, now, last, pc, trace, snap>>

MemRaceCollect ==
    /\ reqs # <<>>
    /\ \A c \in RaceClients : reqs[c].stage = "done"
    /\ reqs' = <<>>
    /\ snap' = {}
    /\ UNCHANGED <<Front, variant, todos, table, now, last, pc, trace>>

MemRaceNext ==
    \/ MemRaceIssue
    \/ MemRaceStep
    \/ MemRaceCollect

InitMemRace == Init /\ variant = "mem"

SpecMemRace == InitMemRace /\ [][MemRaceNext]_vars

\* responses and final array when the handlers of the requests in flight run
\* one after another in some order, from the array `ts`
RECURSIVE MemSeqRuns(_, _, _)
MemSeqRuns(ts, pending, resp) ==
    IF pending = {} THEN {[final |-> ts, resp |-> resp]}
    ELSE UNION {MemSeqRuns(MemRunHandler(ts, reqs[c]).store, pending \ {c},
                           [resp EXCEPT ![c] = MemRunHandler(ts, reqs[c]).value])
                : c \in pending}

MemSeqOutcomes == MemSeqRuns(snap, RaceClients, [c \in RaceClients |-> UndefinedValue])

MemRaceOutcome == [final |-> todos, resp |-> [c \in RaceClients |-> reqs[c].resp]]

----------------------------------------------------------------------------
(* The form helpers as steps *)

(* an async function: a throw rejects its promise, a return fulfils it,    *)
(* an await leaves it pending                                              *)
Promise(fn, c) ==
    Applied(fn, "", "", <<>>,
            IF c.threw THEN "rejected"
            ELSE IF c.value = Awaiting THEN "pending" ELSE "fulfilled",
            c.value)

Api == <<variant, todos, table, now, last>>

(* A behaviour applies one helper to the submitted form.  The helpers keep *)
(* no state of their own, so a second application reaches nothing new.     *)
Fresh == applied = NoApplied

ExtractCall ==
    /\ Fresh
    /\ \E kind \in Extractors : \E name \in ExtractNames :
         LET c == Extract(kind, formData, name) IN
         applied' = Applied(kind, name, "", <<>>,
                            IF c.threw THEN "threw" ELSE "returned", c.value)
    /\ UNCHANGED <<formData, Api, Clients, Nav, Labs>>

ValidateFieldCall ==
    /\ Fresh
    /\ \E name \in FieldNames : \E rules \in RuleLists :
         /\ formData[name].type = "string"
         /\ applied' = Applied("validateField", "", formData[name].v, rules,
                               "returned",
                               ValidateField(formData[name].v, rules))
    /\ UNCHANGED <<formData, Api, Clients, Nav, Labs>>

ContactFormCall ==
    /\ Fresh
    /\ applied' = Promise("contactFormAction",
                          ContactFormCatch(ContactFormTry(formData)))
    /\ UNCHANGED <<formData, Api, Clients, Nav, Labs>>

ContactFormTimer ==
    /\ applied.fn = "contactFormAction"
    /\ applied.status = "pending"
    /\ applied' = [applied EXCEPT !.status = "fulfilled",
                                  !.result = ContactFormResume(formData)]
    /\ UNCHANGED <<formData, Api, Clients, Nav, Labs>>

NewsletterCall ==
    /\ Fresh
    /\ applied' = Promise("newsletterAction",
                          NewsletterCatch(NewsletterTry(formData)))
    /\ UNCHANGED <<formData, Api, Clients, Nav, Labs>>

NewsletterTimer ==
    /\ applied.fn = "newsletterAction"
    /\ applied.status = "pending"
    /\ applied' = [applied EXCEPT !.status = "fulfilled",
                                  !.result = NewsletterResume(formData)]
    /\ UNCHANGED <<formData, Api, Clients, Nav, Labs>>

FormsNext ==
    \/ ExtractCall
    \/ ValidateFieldCall
    \/ ContactFormCall
    \/ ContactFormTimer
    \/ NewsletterCall
    \/ NewsletterTimer

InitForms ==
    /\ variant = "mem"
    /\ todos = <<>>
    /\ table = {}
    /\ now = 0
    /\ last = NoCall
    /\ pc = 0
    /\ trace = <<>>
    /\ reqs = <<>>
    /\ snap = {}
    /\ formData \in Forms
    /\ applied = NoApplied
    /\ url = HubPath
    /\ ready = TRUE
    /\ trips = 0
    /\ click = NoClick
    /\ lookup = NoLookup
    /\ optTodos = InitialTodos
    /\ inflight = <<>>
    /\ activities = <<>>
    /\ timers = <<>>
    /\ pair = NoPair

SpecForms == InitForms /\ [][FormsNext]_vars

----------------------------------------------------------------------------
(* Vocabulary of the properties *)

IsMem == variant = "mem"
Completion(rec) == IF IsMem THEN rec.completed ELSE rec.done
StoreIds == IF IsMem THEN {todos[i].id : i \in 1..Len(todos)} ELSE {r.id : r \in table}
StoreSize == IF IsMem THEN Len(todos) ELSE Cardinality(table)
StoreUnchanged == todos' = todos /\ table' = table

\* the step just taken was a call of `proc` (every call writes `last`)
Calls(proc) == vars' # vars /\ last'.proc = proc
CallsWithId(proc) == Calls(proc) /\ last'.input.type = "string"

\* position of the first todo of the array carrying `id`, 0 when there is none
FirstAt(id) ==
    IF \E i \in 1..Len(todos) : todos[i].id = id
    THEN CHOOSE i \in 1..Len(todos) :
             todos[i].id = id /\ \A j \in 1..(i - 1) : todos[j].id # id
    ELSE 0

Without(seq, i) == SubSeq(seq, 1, i - 1) \o SubSeq(seq, i + 1, Len(seq))

----------------------------------------------------------------------------
(* C1: every add of a text of length >= 1 (whitespace-only included)       *)
(* creates exactly one todo with that text, completion false and an id no  *)
(* stored todo has, returns it, and leaves the stored todos as they were.  *)

C1_AddStep ==
    (Calls("todos.add") /\ last'.input.type = "string" /\ Len(last'.input.v) >= 1)
    => /\ last'.outcome = "ok"
       /\ last'.value.kind = "record"
       /\ last'.value.rec.text = last'.input.v
       /\ Completion(last'.value.rec) = FALSE
       /\ last'.value.rec.id \notin StoreIds
       /\ IF IsMem THEN todos' = Append(todos, last'.value.rec)
                   ELSE /\ last'.value.rec \notin table
                        /\ table' = table \cup {last'.value.rec}

C1_AddCreatesUniqueTodo == [][C1_AddStep]_vars

----------------------------------------------------------------------------
(* C2: a call of add, toggle or delete whose payload fails the input       *)
(* schema (add with the empty text included) is answered with a validation *)
(* error, its handler does not run and the collection stays as it was.     *)

FailsSchema ==
    \/ /\ last'.proc = "todos.add"
       /\ (last'.input.type # "string" \/ last'.input.v = "")
    \/ /\ last'.proc \in {"todos.toggle", "todos.delete"}
       /\ last'.input.type # "string"

C2_RejectStep ==
    (vars' # vars /\ FailsSchema)
    => /\ last'.outcome = "error"
       /\ last'.value = ErrorValue("BAD_REQUEST")
       /\ ~last'.ran
       /\ StoreUnchanged

C2_InvalidPayloadRejected == [][C2_RejectStep]_vars

C2_Witness ==
    /\ last.proc = "todos.add"
    /\ last.input = Str("")
    /\ last.outcome = "error"
    /\ StoreSize > 0

----------------------------------------------------------------------------
(* C3: toggle of an id that is stored negates the completion flag of the   *)
(* todo with that id, once, and returns the updated record; nothing else   *)
(* changes; a second toggle of the same id right after the first puts the  *)
(* flag back to what it was before the first.                              *)

C3_ToggleStep ==
    (CallsWithId("todos.toggle") /\ last'.input.v \in StoreIds)
    => /\ last'.outcome = "ok"
       /\ last'.value.kind = "record"
       /\ IF IsMem
          THEN LET i == FirstAt(last'.input.v)
               IN  /\ todos' = [todos EXCEPT ![i].completed = ~todos[i].completed]
                   /\ last'.value.rec = todos'[i]
          ELSE LET r == CHOOSE r \in table : r.id = last'.input.v
               IN  /\ table' = (table \ {r}) \cup {[r EXCEPT !.done = ~r.done]}
                   /\ last'.value.rec = [r EXCEPT !.done = ~r.done]

C3_SecondToggleStep ==
    (/\ CallsWithId("todos.toggle")
     /\ last.proc = "todos.toggle"
     /\ last.value.kind = "record"
     /\ last'.input = last.input)
    => /\ last'.value.kind = "record"
       /\ Completion(last'.value.rec) = Completion(last.pre.rec)
       /\ Completion(last.value.rec) # Completion(last.pre.rec)

C3_ToggleNegatesOnce == [][C3_ToggleStep /\ C3_SecondToggleStep]_vars

C3_Witness ==
    /\ last.proc = "todos.toggle"
    /\ last.value.kind = "record"
    /\ last.pre.kind = "record"
    /\ Completion(last.value.rec) = FALSE
    /\ Completion(last.pre.rec) = TRUE
    /\ StoreSize = 2

----------------------------------------------------------------------------
(* C4: toggle of an id no stored todo has returns null, without an error,  *)
(* and leaves the collection as it was.                                    *)

C4_ToggleMissingStep ==
    (CallsWithId("todos.toggle") /\ last'.input.v \notin StoreIds)
    => /\ last'.outcome = "ok"
       /\ last'.value = NullValue
       /\ StoreUnchanged

C4_ToggleMissingReturnsNull == [][C4_ToggleMissingStep]_vars

----------------------------------------------------------------------------
(* C5: delete of a stored id removes exactly that one todo and returns the *)
(* removed record, the collection read afterwards does not hold it; delete *)
(* of an id that is not stored returns null, without an error, and leaves  *)
(* the collection as it was; in both routers.                              *)

C5_DeleteStep ==
    /\ (CallsWithId("todos.delete") /\ last'.input.v \in StoreIds)
       => /\ last'.outcome = "ok"
          /\ last'.value.kind = "record"
          /\ last'.value.rec.id = last'.input.v
          /\ IF IsMem
             THEN /\ last'.value.rec = todos[FirstAt(last'.input.v)]
                  /\ todos' = Without(todos, FirstAt(last'.input.v))
             ELSE /\ last'.value.rec \in table
                  /\ table' = table \ {last'.value.rec}
    /\ (CallsWithId("todos.delete") /\ last'.input.v \notin StoreIds)
       => /\ last'.outcome = "ok"
          /\ last'.value = NullValue
          /\ StoreUnchanged

C5_DeleteRemovesOrReturnsNull == [][C5_DeleteStep]_vars

----------------------------------------------------------------------------
(* C6: no two stored todos have the same id, and a stored todo keeps its   *)
(* id.                                                                     *)

C6_Distinct ==
    /\ \A i, j \in 1..Len(todos) : i # j => todos[i].id # todos[j].id
    /\ \A r1, r2 \in table : r1.id = r2.id => r1 = r2

C6_IdsKept ==
    last'.proc \notin {"todos.add", "todos.delete"}
    => /\ [i \in 1..Len(todos') |-> todos'[i].id] = [i \in 1..Len(todos) |-> todos[i].id]
       /\ {r.id : r \in table'} = {r.id : r \in table}

C6_UniqueImmutableIds == []C6_Distinct /\ [][C6_IdsKept]_vars

----------------------------------------------------------------------------
(* C7: the completion flag of a todo changes only in a toggle call on its  *)
(* id; text and creation time of a stored todo never change; a todo leaves *)
(* the collection only in a delete call on its id; getAll and              *)
(* health.status leave the collection as it was.                           *)

C7_MemFrame ==
    /\ Len(todos') >= Len(todos) =>
          \A i \in 1..Len(todos) :
             /\ todos'[i].id = todos[i].id
             /\ todos'[i].text = todos[i].text
             /\ todos'[i].createdAt = todos[i].createdAt
             /\ todos'[i].completed # todos[i].completed
                   => /\ last'.proc = "todos.toggle"
                      /\ last'.input = Str(todos[i].id)
    /\ Len(todos') < Len(todos) =>
          /\ last'.proc = "todos.delete"
          /\ \E i \in 1..Len(todos) :
                /\ last'.input = Str(todos[i].id)
                /\ todos' = Without(todos, i)

C7_DbFrame ==
    \A r \in table :
       IF \E q \in table' : q.id = r.id
       THEN LET q == CHOOSE q \in table' : q.id = r.id
            IN  /\ q.text = r.text
                /\ q.createdAt = r.createdAt
                /\ q.done # r.done
                      => /\ last'.proc = "todos.toggle"
                         /\ last'.input = Str(r.id)
       ELSE /\ last'.proc = "todos.delete"
            /\ last'.input = Str(r.id)

C7_FrameStep ==
    /\ C7_MemFrame
    /\ C7_DbFrame
    /\ (Calls("todos.getAll") \/ Calls("health.status")) => StoreUnchanged

C7_LifecycleFrame == [][C7_FrameStep]_vars

C7_Witness ==
    /\ StoreSize = 1
    /\ last.proc = "todos.delete"
    /\ last.value.kind = "record"

----------------------------------------------------------------------------
(* C8: health.status called without input answers {status: "OK"}, never an *)
(* error, whatever todo calls came before.                                 *)

C8_HealthAlwaysOk ==
    (last.proc = "health.status" /\ last.input = Undefined)
    => /\ last.outcome = "ok"
       /\ last.value = RecordValue([status |-> "OK"])

C8_Witness ==
    /\ last.proc = "health.status"
    /\ last.input = Undefined
    /\ last.value = RecordValue([status |-> "OK"])
    /\ StoreSize = 2

----------------------------------------------------------------------------
(* C9: from the empty collection, add("Buy milk"), getAll, toggle(X),      *)
(* delete(X), getAll answer in order: the record X with text "Buy milk"    *)
(* not completed; a list holding X; the record X completed; the record X;  *)
(* the empty list.                                                         *)

ListHolds(value, id) ==
    /\ value.kind = "list"
    /\ IF IsMem THEN \E i \in 1..Len(value.items) : value.items[i].id = id
                ELSE \E r \in value.items : r.id = id

ListEmpty(value) ==
    /\ value.kind = "list"
    /\ IF IsMem THEN value.items = <<>> ELSE value.items = {}

----------------------------------------------------------------------------
(* C10: in the Prisma router toggle reads (findUnique) and writes (update) *)
(* in two steps with nothing to keep other requests out; when another      *)
(* request on the same id writes between the two, the responses and the    *)
(* final table are those of no sequential order of the two requests: two   *)
(* toggles both answer the same flag, a toggle overtaken by a delete fails.*)

C10_StaleToggleNotSerializable ==
    (RaceDone /\ \E c \in RaceClients : reqs[c].stale)
    => RaceOutcome \notin SeqOutcomes

\* does not hold of the Prisma router: C10_Witness is a state that breaks it
C10_Serializable == RaceDone => RaceOutcome \in SeqOutcomes

C10_Witness ==
    /\ variant = "db"
    /\ RaceDone
    /\ \A c \in RaceClients : reqs[c].proc = "todos.toggle"
    /\ reqs["A"].id = reqs["B"].id
    /\ reqs["A"].resp.kind = "record"
    /\ reqs["A"].resp = reqs["B"].resp
    /\ RaceOutcome \notin SeqOutcomes

\* the other race: the row is deleted between findUnique and update
C10_WitnessDelete ==
    /\ variant = "db"
    /\ RaceDone
    /\ reqs["A"].proc = "todos.toggle"
    /\ reqs["B"].proc = "todos.delete"
    /\ reqs["A"].resp.kind = "error"
    /\ reqs["B"].resp.kind = "record"
    /\ RaceOutcome \notin SeqOutcomes

----------------------------------------------------------------------------
(* C11: in the in-memory router every handler reads and writes the array   *)
(* in one uninterrupted step, so however the requests in flight are        *)
(* interleaved, their responses and the final array are those of running   *)
(* the same requests one after another in some order.                      *)

----------------------------------------------------------------------------
(* Form helpers: validateField *)

FailingRules(value, rules) ==
    {i \in 1..Len(rules) : ~Validate(rules[i], value)}

(* C12: validateField evaluates the rules in the order given and returns   *)
(* the message of the first rule whose validate rejects the value; it      *)
(* returns null exactly when every rule passes, which includes the empty   *)
(* rule list.                                                              *)
C12_ValidateFieldFirstFailure ==
    applied.fn = "validateField" =>
        LET failing == FailingRules(applied.value, applied.rules) IN
        /\ (applied.result = Null) <=> (failing = {})
        /\ failing # {} =>
              LET first == CHOOSE i \in failing : \A j \in failing : i <= j
              IN applied.result = Str(applied.rules[first].message)

C12_Witness ==
    /\ applied.fn = "validateField"
    /\ Len(applied.rules) = 2
    /\ FailingRules(applied.value, applied.rules) = {1, 2}
    /\ applied.rules[1].message # applied.rules[2].message
    /\ applied.result = Str(applied.rules[1].message)

----------------------------------------------------------------------------
(* Form helpers: createFormDataExtractor *)

(* The field texts that are numbers, with the number each one denotes.     *)
(* JavaScript converts the empty string and a blank string to 0.           *)
NumberTexts ==
    ("" :> 0) @@ ("   " :> 0) @@ ("-42 " :> -42)
    @@ ("1234567890" :> 1234567890)

IsText(name) == name \in DOMAIN formData /\ formData[name].type = "string"
IsAbsent(name) == name \notin DOMAIN formData \/ formData[name] = Null

AppliedThrew(message) ==
    applied.status = "threw" /\ applied.result = Str(message)
AppliedReturned(value) ==
    applied.status = "returned" /\ applied.result = value

----------------------------------------------------------------------------
(* Form helpers: contactFormAction and newsletterAction *)

AllText == \A f \in FieldNames : IsText(f)

HasInk(s) == \E i \in 1..Len(s) : CharAt(s, i) \notin Whitespace
HasAt(s) == \E i \in 1..Len(s) : CharAt(s, i) = "@"

FailingFields ==
    {f \in {"name"} : ~HasInk(formData["name"].v)}
    \cup {f \in {"email"} : ~HasAt(formData["email"].v)}
    \cup {f \in {"message"} : Len(formData["message"].v) < 10}

Keys(map) == {kv[1] : kv \in map}

(* C15: with name, email and message all present as text, the action       *)
(* succeeds, with data holding the three submitted values, exactly when    *)
(* the name is not blank, the email contains "@" and the message has at    *)
(* least 10 characters.  Otherwise it returns success = false with message *)
(* "Please fix the errors below" and an errors map that has an entry for   *)
(* each failing field and for no other field.                              *)
C15_ContactValidation ==
    (applied.fn = "contactFormAction" /\ AllText) =>
        /\ applied.status \in {"pending", "fulfilled"}
        /\ applied.status = "pending" => FailingFields = {}
        /\ applied.status = "fulfilled" =>
              /\ applied.result.success <=> FailingFields = {}
              /\ applied.result.success =>
                    /\ applied.result.hasData
                    /\ applied.result.data =
                          {<<f, formData[f].v>> : f \in FieldNames}
              /\ ~applied.result.success =>
                    /\ applied.result.message = "Please fix the errors below"
                    /\ applied.result.hasErrors
                    /\ Keys(applied.result.errors) = FailingFields
                    /\ ~applied.result.hasData

C15_Witness ==
    /\ applied.fn = "contactFormAction"
    /\ applied.status = "fulfilled"
    /\ formData["message"] = Str("1234567890")
    /\ applied.result.success
    /\ <<"message", "1234567890">> \in applied.result.data

(* C16: the promise of contactFormAction is never rejected.  When one of   *)
(* name, email, message is absent it is fulfilled with success = false, a  *)
(* message that contains "Missing field", no data and no errors map.       *)
C16_ContactNeverRejects ==
    applied.fn = "contactFormAction" =>
        /\ applied.status \in {"pending", "fulfilled"}
        /\ (\E f \in FieldNames : IsAbsent(f)) =>
              /\ applied.status = "fulfilled"
              /\ ~applied.result.success
              /\ SubSeq(applied.result.message, 1, 13) = "Missing field"
              /\ ~applied.result.hasData
              /\ ~applied.result.hasErrors

C16_Witness ==
    /\ applied.fn = "contactFormAction"
    /\ IsText("name")
    /\ IsAbsent("email")
    /\ applied.status = "fulfilled"
    /\ applied.result.message = "Missing field: email"

(* C17: newsletterAction is fulfilled with success = false, message        *)
(* "Please enter a valid email address" and errors.email = "Invalid email" *)
(* when the email field is absent, empty or a text without "@".  For a     *)
(* text with "@" it succeeds with data.email the submitted text.  Its      *)
(* promise is never rejected.                                              *)
C17_Newsletter ==
    applied.fn = "newsletterAction" =>
        /\ applied.status \in {"pending", "fulfilled"}
        /\ (IsAbsent("email")
            \/ (IsText("email") /\ ~HasAt(formData["email"].v))) =>
              /\ applied.status = "fulfilled"
              /\ ~applied.result.success
              /\ applied.result.message = "Please enter a valid email address"
              /\ applied.result.hasErrors
              /\ applied.result.errors = {<<"email", "Invalid email">>}
        /\ (IsText("email") /\ HasAt(formData["email"].v)
            /\ applied.status = "fulfilled") =>
              /\ applied.result.success
              /\ applied.result.hasData
              /\ applied.result.data = {<<"email", formData["email"].v>>}

C17_Witness ==
    /\ applied.fn = "newsletterAction"
    /\ applied.status = "fulfilled"
    /\ applied.result.success
    /\ applied.result.data = {<<"email", "bob@mail.com">>}

----------------------------------------------------------------------------
(* Form helpers: createValidationRules *)

(* what each rule of RuleSet is to accept, and the message it is to give *)
Accepts(rule, value) ==
    CASE rule.kind = "required" -> HasInk(value)
      [] rule.kind = "minLength" -> Len(value) >= rule.n
      [] rule.kind = "maxLength" -> Len(value) <= rule.n
      [] rule.kind = "minValue" ->
            value \in DOMAIN NumberTexts /\ NumberTexts[value] >= rule.n
      [] rule.kind = "match" -> value = rule.other

FixedMessage(rule) ==
    CASE rule.kind = "required" -> "Name is required"
      [] rule.kind = "minLength" -> "Name must be at least 4 characters"
      [] rule.kind = "maxLength" -> "Name must be at most 4 characters"
      [] rule.kind = "minValue" -> "Age must be at least 0"
      [] rule.kind = "match" -> "Confirm must match Password"

(* C18: required fails for the empty and for a blank string and passes     *)
(* otherwise; minLength(n) passes exactly when the length is >= n,         *)
(* maxLength(n) exactly when it is <= n, minValue(m) exactly when the      *)
(* numeric value is >= m, match(other) exactly when the value equals       *)
(* other; a failing rule reports its own fixed message.                    *)
C18_RuleBounds ==
    (/\ applied.fn = "validateField"
     /\ Len(applied.rules) = 1
     /\ applied.rules[1].kind \in
            {"required", "minLength", "maxLength", "minValue", "match"}) =>
        applied.result =
            IF Accepts(applied.rules[1], applied.value) THEN Null
            ELSE Str(FixedMessage(applied.rules[1]))

C18_Witness ==
    /\ applied.fn = "validateField"
    /\ applied.rules = <<RuleMinLength(4, "Name")>>
    /\ applied.value = "true"
    /\ applied.result = Null

----------------------------------------------------------------------------
(* The playground pages as steps of a browser session *)

MaxTrips == 4       \* card / back round trips counted up to this many

(* slugs the end-to-end tests open by URL *)
DirectSlugs == {"use-deferred-value", "resource-loading-metadata"}

GotoPaths ==
    {HubPath} \cup {HubPath \o "/" \o s : s \in DirectSlugs}
    \cup {CardHref(react19DemoRegistry[i]) : i \in DOMAIN react19DemoRegistry}

Shown == Render(ready, url)

Rest == <<formData, applied, Api, Clients, Labs>>

(* page.goto(path): a full load; the router of a dynamic route is not      *)
(* ready on the first render                                               *)
Goto ==
    /\ \E path \in GotoPaths :
         /\ url' = path
         /\ ready' = ~IsDetailPath(path)
         /\ click' = [el |-> "goto", slug |-> "", title |-> ""]
    /\ UNCHANGED <<trips, Rest>>

RouterReady ==
    /\ ~ready
    /\ ready' = TRUE
    /\ UNCHANGED <<url, trips, click, Rest>>

ClickCard ==
    /\ Shown.kind = "hub"
    /\ \E i \in DOMAIN Shown.cards :
         /\ url' = Shown.cards[i].href
         /\ click' = [el |-> "card", slug |-> Shown.cards[i].slug,
                      title |-> Shown.cards[i].title]
    /\ UNCHANGED <<ready, trips, Rest>>

ClickBackLink ==
    /\ Shown.backLink
    /\ trips < MaxTrips
    /\ url' = HubPath
    /\ trips' = trips + 1
    /\ click' = [el |-> "back", slug |-> "", title |-> ""]
    /\ UNCHANGED <<ready, Rest>>

ClickBackToPlayground ==
    /\ Shown.kind = "notfound"
    /\ url' = HubPath
    /\ click' = [el |-> "back to playground", slug |-> "", title |-> ""]
    /\ UNCHANGED <<ready, trips, Rest>>

(* slugs handed to getReact19Demo: none, empty, registered, unregistered *)
SlugInputs ==
    {Undefined, Str(""), Str("use-deferred-value"), Str("Custom-Form"),
     Str("custom-form ")}
    \cup {Str(react19DemoRegistry[i].slug) : i \in DOMAIN react19DemoRegistry}

GetReact19DemoCall ==
    /\ \E slug \in SlugInputs :
         lookup' = [called |-> TRUE, slug |-> slug,
                    demo |-> getReact19Demo(slug)]
    /\ UNCHANGED <<Nav, formData, applied, Api, Clients,
                   optTodos, inflight, activities, timers, pair>>

NavNext ==
    \/ GetReact19DemoCall
    \/ Goto
    \/ RouterReady
    \/ ClickCard
    \/ ClickBackLink
    \/ ClickBackToPlayground

InitNav == Init /\ variant = "mem"

SpecNav == InitNav /\ [][NavNext]_vars

----------------------------------------------------------------------------
(* React 19 playground: hub, cards and detail pages *)

Slugs == {react19DemoRegistry[i].slug : i \in DOMAIN react19DemoRegistry}

(* C19: the hub shows one card for each demo of the registry; activating   *)
(* a card leads to /react19-playground/<slug>, where the heading is the    *)
(* title of that card and the back link is shown; activating the back      *)
(* link leads to the hub with the demo grid shown.  This holds for every   *)
(* card and after every number of round trips.                             *)
C19_HubCards ==
    Shown.kind = "hub" =>
        /\ Shown.grid
        /\ Len(Shown.cards) = Len(react19DemoRegistry)
        /\ \A s \in Slugs :
              Cardinality({i \in DOMAIN Shown.cards :
                              Shown.cards[i].slug = s}) = 1

C19_CardStep ==
    click'.el = "card" /\ click' # click =>
        /\ url' = "/react19-playground/" \o click'.slug
        /\ Shown'.kind = "detail"
        /\ Shown'.h1 = click'.title
        /\ Shown'.backLink

C19_BackStep ==
    trips' # trips =>
        /\ url' = "/react19-playground"
        /\ Shown'.kind = "hub"
        /\ Shown'.grid

C19_CardRoundTrips ==
    /\ [](C19_HubCards)
    /\ [][C19_CardStep /\ C19_BackStep]_vars

C19_Witness ==
    /\ trips = MaxTrips
    /\ click.el = "card"
    /\ click.slug = "resource-loading-metadata"
    /\ Shown.h1 = "Resource Loading & Metadata"
    /\ Shown.backLink

(* C20: each slug that the end-to-end tests open by URL is a registered    *)
(* demo: once the router is ready the detail page shows that demo's title  *)
(* as heading and the back link, and not the "Demo not found" page.        *)
C20_DirectSlugsRegistered ==
    \A s \in DirectSlugs :
        (url = "/react19-playground/" \o s /\ ready) =>
            /\ getReact19Demo(Str(s)) # NoDemo
            /\ Shown.kind = "detail"
            /\ Shown.h1 = getReact19Demo(Str(s)).title
            /\ Shown.backLink

----------------------------------------------------------------------------
(* React 19 playground: getReact19Demo *)

Registered(slug) ==
    {i \in DOMAIN react19DemoRegistry :
        slug # Undefined /\ react19DemoRegistry[i].slug = slug.v}

(* C21: getReact19Demo(slug) returns undefined when slug is undefined or   *)
(* empty or the slug of no registered demo; otherwise it returns the       *)
(* registry entry with that slug.  No two entries of the registry have the *)
(* same slug, so there is exactly one such entry.                          *)
C21_LookupBySlug ==
    /\ \A i, j \in DOMAIN react19DemoRegistry :
          i # j => react19DemoRegistry[i].slug # react19DemoRegistry[j].slug
    /\ lookup.called =>
          IF \/ lookup.slug = Undefined
             \/ lookup.slug.v = ""
             \/ Registered(lookup.slug) = {}
          THEN lookup.demo = NoDemo
          ELSE /\ Cardinality(Registered(lookup.slug)) = 1
               /\ \E i \in Registered(lookup.slug) :
                     lookup.demo = react19DemoRegistry[i]
               /\ lookup.demo.slug = lookup.slug.v

C21_Witness ==
    /\ lookup.called
    /\ lookup.slug = Str("custom-form")
    /\ lookup.demo = Demo("custom-form", "Custom Form Component")

----------------------------------------------------------------------------
(* UseOptimisticDemo (use-optimistic.tsx) *)

MaxAdds == 2        \* at most this many todos are added through the input

TodoInputs == {"", "   ", "Test todo", " x "}

RandomNumbers == {"0.25", "0.5"}

(* the useOptimistic reducer: (state, newTodo) => [...state, {...newTodo, *)
(* pending: true}]                                                         *)
AddOptimisticNotPending(state, newTodo) == Append(state, newTodo)

AddOptimisticTodo(state, newTodo) ==
    Append(state, [newTodo EXCEPT !.pending = TRUE])

(* optimisticTodos: the reducer applied to `todos` for every optimistic   *)
(* update whose transition has not been committed                          *)
RECURSIVE Optimistic(_, _)
Optimistic(state, updates) ==
    IF updates = <<>> THEN state
    ELSE Optimistic(AddOptimisticTodo(state, Head(updates).newTodo),
                    Tail(updates))

OptimisticTodos == Optimistic(optTodos, inflight)

(* handleAddTodo(text) at clock readings t1 <= t2 with Math.random() rnd:  *)
(* the optimistic update is queued and addTodoAction starts its timer      *)
HandleAddTodo(text, t1, t2, rnd) ==
    /\ Len(optTodos) + Cardinality({i \in DOMAIN inflight :
                                       inflight[i].stage = "waiting"})
          < Len(InitialTodos) + MaxAdds
    /\ now' = t2
    /\ inflight' = Append(inflight,
          [newTodo |-> OptimisticItem(
                          "temp-" \o ToString(t1) \o "-" \o rnd, text, FALSE),
           confirmedTodo |-> OptimisticItem(ToString(t2), text, FALSE),
           stage |-> "waiting"])
    /\ UNCHANGED optTodos

SubmitAnyText(text) ==
    \E t1 \in now..MaxClock : \E t2 \in t1..MaxClock :
        \E rnd \in RandomNumbers : HandleAddTodo(text, t1, t2, rnd)

(* both input handlers: if (input.value.trim()) handleAddTodo(input.value) *)
Submit(text) ==
    IF Trim(text) # ""
    THEN \E t1 \in now..MaxClock : \E t2 \in t1..MaxClock :
            \E rnd \in RandomNumbers : HandleAddTodo(text, t1, t2, rnd)
    ELSE UNCHANGED <<now, optTodos, inflight>>

OptRest ==
    <<variant, todos, table, last, Clients, formData, applied, Nav, lookup,
      activities, timers, pair>>

PressEnter ==
    /\ \E text \in TodoInputs : Submit(text)
    /\ UNCHANGED OptRest

ClickAdd ==
    /\ \E text \in TodoInputs : Submit(text)
    /\ UNCHANGED OptRest

Drop(seq, i) == SubSeq(seq, 1, i - 1) \o SubSeq(seq, i + 1, Len(seq))

(* the timer of addTodoAction fires: the action resumes after the await,   *)
(* setTodos appends the result and the async function returns              *)
ActionResolves ==
    /\ \E i \in DOMAIN inflight :
         /\ inflight[i].stage = "waiting"
         /\ optTodos' = Append(optTodos, inflight[i].confirmedTodo)
         /\ inflight' = [inflight EXCEPT ![i].stage = "returned"]
    /\ UNCHANGED <<now, OptRest>>

(* React commits a finished transition and drops its optimistic update:   *)
(* that of one returned action, or, when the pending actions are committed *)
(* together, those of all once none is waiting                             *)
TransitionCommits ==
    /\ \/ \E i \in DOMAIN inflight :
             /\ inflight[i].stage = "returned"
             /\ inflight' = Drop(inflight, i)
       \/ /\ inflight # <<>>
          /\ \A i \in DOMAIN inflight : inflight[i].stage = "returned"
          /\ inflight' = <<>>
    /\ UNCHANGED <<now, optTodos, OptRest>>

OptNext ==
    \/ PressEnter
    \/ ClickAdd
    \/ ActionResolves
    \/ TransitionCommits

InitOpt == Init /\ variant = "mem"

SpecOpt == InitOpt /\ [][OptNext]_vars

----------------------------------------------------------------------------
(* UseOptimisticDemo: pending and confirmed items *)

Items(seq) == {seq[i] : i \in DOMAIN seq}

(* C22: a submitted non-blank text is at once in the rendered list as an   *)
(* item marked pending, and stays so while its action is in flight; when   *)
(* an action resolves the list holds a confirmed item with its text, and   *)
(* once no transition is left no rendered item is marked pending.  A blank *)
(* or whitespace-only text adds nothing.                                   *)
C22_InFlightShown ==
    /\ \A i \in DOMAIN inflight :
          \E item \in Items(OptimisticTodos) :
              item.text = inflight[i].newTodo.text /\ item.pending
    /\ \A i \in DOMAIN inflight :
          inflight[i].stage = "returned" =>
              \E item \in Items(OptimisticTodos) :
                  item.text = inflight[i].newTodo.text /\ ~item.pending
    /\ inflight = <<>> => \A item \in Items(OptimisticTodos) : ~item.pending
    /\ \A item \in Items(OptimisticTodos) :
          \E k \in 1..Len(item.text) : SubSeq(item.text, k, k) # " "

C22_SubmitStep ==
    Len(inflight') > Len(inflight) =>
        /\ Len(OptimisticTodos') = Len(OptimisticTodos) + 1
        /\ OptimisticTodos'[Len(OptimisticTodos')].pending
        /\ OptimisticTodos'[Len(OptimisticTodos')].text
              = inflight'[Len(inflight')].newTodo.text

C22_ResolveStep ==
    /\ Len(optTodos') >= Len(optTodos)
    /\ SubSeq(optTodos', 1, Len(optTodos)) = optTodos
    /\ \A i \in DOMAIN optTodos' : ~optTodos'[i].pending

----------------------------------------------------------------------------
(* The two todo routers side by side: one caller sends the same call to    *)
(* the in-memory router and to the Prisma router, one call after another.  *)
(* An id argument is an id the caller got from an earlier add (each router *)
(* is given the id it issued itself) or an id neither router issued.       *)

UnknownId == "zz"

\* id arguments of a toggle / delete, as <<payload for mem, payload for db>>
PairIdPayloads ==
    {<<Str(i[1]), Str(i[2])>> : i \in pair.ids}
        \cup {<<Str(UnknownId), Str(UnknownId)>>, <<Num("1"), Num("1")>>,
              <<Undefined, Undefined>>}

PairRest ==
    <<variant, last, Clients, formData, applied, Nav, lookup, optTodos,
      inflight, activities, timers>>

PairGetAll ==
    /\ \E t \in now..MaxClock : now' = t
    /\ todos' = MemGetAll(todos).store
    /\ table' = DbGetAll(table).store
    /\ pair' = [pair EXCEPT
                  !.mem = Response("todos.getAll", Undefined, MemGetAll(todos),
                                   UndefinedValue),
                  !.db = Response("todos.getAll", Undefined, DbGetAll(table),
                                  UndefinedValue)]
    /\ UNCHANGED PairRest

\* the caller adds at most MaxTodos todos over the whole run
PairAdd ==
    /\ Cardinality(pair.ids) < MaxTodos
    /\ Len(todos) < MaxTodos
    /\ Cardinality(table) < MaxTodos
    /\ \E p \in TextPayloads, rnd \in RandomStrings, newId \in FreshIds(table),
          t \in now..MaxClock :
          /\ now' = t
          /\ IF AddSchema(p)
             THEN /\ todos' = MemAdd(todos, p.v, rnd, t).store
                  /\ table' = DbAdd(table, p.v, newId, t).store
                  /\ pair' = [ids |-> pair.ids \cup {<<MemNewId(rnd), newId>>},
                              mem |-> Response("todos.add", p,
                                               MemAdd(todos, p.v, rnd, t),
                                               UndefinedValue),
                              db |-> Response("todos.add", p,
                                              DbAdd(table, p.v, newId, t),
                                              UndefinedValue)]
             ELSE /\ UNCHANGED <<todos, table>>
                  /\ pair' = [pair EXCEPT !.mem = Rejected("todos.add", p),
                                          !.db = Rejected("todos.add", p)]
    /\ UNCHANGED PairRest

PairToggle ==
    /\ \E p \in PairIdPayloads, t \in now..MaxClock :
          /\ now' = t
          /\ IF IdSchema(p[1])
             THEN /\ todos' = MemToggle(todos, p[1].v).store
                  /\ table' = DbToggle(table, p[2].v).store
                  /\ pair' = [pair EXCEPT
                                !.mem = Response("todos.toggle", p[1],
                                                 MemToggle(todos, p[1].v),
                                                 MemFound(todos, p[1].v)),
                                !.db = Response("todos.toggle", p[2],
                                                DbToggle(table, p[2].v),
                                                FindUnique(table, p[2].v))]
             ELSE /\ UNCHANGED <<todos, table>>
                  /\ pair' = [pair EXCEPT !.mem = Rejected("todos.toggle", p[1]),
                                          !.db = Rejected("todos.toggle", p[2])]
    /\ UNCHANGED PairRest

PairDelete ==
    /\ \E p \in PairIdPayloads, t \in now..MaxClock :
          /\ now' = t
          /\ IF IdSchema(p[1])
             THEN /\ todos' = MemDelete(todos, p[1].v).store
                  /\ table' = DbDelete(table, p[2].v).store
                  /\ pair' = [pair EXCEPT
                                !.mem = Response("todos.delete", p[1],
                                                 MemDelete(todos, p[1].v),
                                                 MemFound(todos, p[1].v)),
                                !.db = Response("todos.delete", p[2],
                                                DbDelete(table, p[2].v),
                                                FindUnique(table, p[2].v))]
             ELSE /\ UNCHANGED <<todos, table>>
                  /\ pair' = [pair EXCEPT !.mem = Rejected("todos.delete", p[1]),
                                          !.db = Rejected("todos.delete", p[2])]
    /\ UNCHANGED PairRest

PairNext ==
    \/ PairGetAll
    \/ PairAdd
    \/ PairToggle
    \/ PairDelete

InitPair == Init /\ variant = "mem"

SpecPair == InitPair /\ [][PairNext]_vars

----------------------------------------------------------------------------
(* C23: the in-memory and the Prisma router are the same todo service: for *)
(* every sequence of getAll / add / toggle / delete calls issued one after *)
(* another both answer each call with corresponding outcomes (a record,    *)
(* null or an error at the same calls, the same completion value in the    *)
(* same record field) and hold the same todos after each call.             *)

\* what a caller can tell an answer to be
OutcomeKind(resp) == IF resp.outcome = "error" THEN resp.value.code ELSE resp.value.kind

\* the record field a todo carries its completion in
CompletionField(rec) ==
    IF "completed" \in DOMAIN rec THEN "completed"
    ELSE IF "done" \in DOMAIN rec THEN "done" ELSE "none"

CompletionValue(rec) ==
    IF "completed" \in DOMAIN rec THEN rec.completed
    ELSE IF "done" \in DOMAIN rec THEN rec.done ELSE FALSE

\* the same todo, up to the ids the two routers gave it
SameTodo(m, d) ==
    /\ <<m.id, d.id>> \in pair.ids
    /\ m.text = d.text
    /\ CompletionField(m) = CompletionField(d)
    /\ CompletionValue(m) = CompletionValue(d)

SameTodos(ts, tb) ==
    /\ Len(ts) = Cardinality(tb)
    /\ \A i \in 1..Len(ts) : \E r \in tb : SameTodo(ts[i], r)
    /\ \A r \in tb : \E i \in 1..Len(ts) : SameTodo(ts[i], r)

SameOutcome(m, d) ==
    /\ m.proc = d.proc
    /\ OutcomeKind(m) = OutcomeKind(d)
    /\ m.value.kind = "record" /\ d.value.kind = "record"
          => SameTodo(m.value.rec, d.value.rec)
    /\ m.value.kind = "list" /\ d.value.kind = "list"
          => SameTodos(m.value.items, d.value.items)

C23_RoutersCorrespond ==
    /\ SameOutcome(pair.mem, pair.db)
    /\ SameTodos(todos, table)

----------------------------------------------------------------------------
(* ActivityComponentDemo: toast-like notifications, each dismissed by a    *)
(* timeout set when it is added. Here the clock is Date.now() in ms.       *)

MaxActivities == 2  \* at most this many timeouts are pending at a time

\* setTimeout(..., 4000)
ActivityDelay == 4000

\* the three buttons: the arguments of addActivity (the messages without
\* their leading glyph)
ActivityButtons ==
    { [type |-> "success", message |-> "Action completed successfully!"],
      [type |-> "error", message |-> "Something went wrong!"],
      [type |-> "info", message |-> "Here is some information"] }

\* ms between the last event and a click: none, half a delay, a whole delay
ClickGaps == {0, ActivityDelay \div 2, ActivityDelay}

Later(a, b) == IF a > b THEN a ELSE b

\* prev.filter((a) => a.id !== id)
WithoutId(prev, id) == SelectSeq(prev, LAMBDA a : a.id # id)

\* the timeout callback: setActivities(prev => prev.filter(a => a.id !== id))
Dismiss(prev, id) == WithoutId(prev, id)

\* addActivity called at clock reading t
AddActivity(type, message, t) ==
    LET id == ToString(t)
    IN  /\ now' = t
        /\ activities' = <<[id |-> id, type |-> type, message |-> message]>>
                              \o activities
        /\ timers' = Append(timers, [id |-> id, due |-> t + ActivityDelay])

ActRest ==
    <<variant, todos, table, last, Clients, formData, applied, Nav, lookup,
      optTodos, inflight, pair>>

\* a click on one of the buttons; a timeout due before the click has fired
ClickActivityButton ==
    /\ Len(timers) < MaxActivities
    /\ \E b \in ActivityButtons, gap \in ClickGaps :
          /\ now + gap <= MaxClock * ActivityDelay
          /\ \A i \in 1..Len(timers) : timers[i].due >= now + gap
          /\ AddActivity(b.type, b.message, now + gap)
    /\ UNCHANGED ActRest

\* the oldest pending timeout fires (equal delays: they fire in the order set)
TimeoutFires ==
    /\ timers # <<>>
    /\ now' = Later(now, Head(timers).due)
    /\ activities' = Dismiss(activities, Head(timers).id)
    /\ timers' = Tail(timers)
    /\ UNCHANGED ActRest

ActNext ==
    \/ ClickActivityButton
    \/ TimeoutFires

InitAct == Init /\ variant = "mem"

SpecAct == InitAct /\ [][ActNext]_vars

----------------------------------------------------------------------------
(* C24: every activity added by addActivity is placed at the head of the   *)
(* list and is removed by its own timer; a timer removes only the activity *)
(* it was created for, so no activity is dismissed earlier than its own    *)
(* timer fires, for any sequence and timing of add clicks.                 *)

\* every activity shown still has its own timeout pending, and conversely
C24_OwnTimerPending ==
    /\ Len(activities) = Len(timers)
    /\ \A i \in 1..Len(timers) :
          activities[Len(activities) + 1 - i].id = timers[i].id

\* a click puts the new activity at the head and leaves the others as they were
C24_AddStep ==
    Len(timers') = Len(timers) + 1 =>
        /\ Len(activities') = Len(activities) + 1
        /\ Tail(activities') = activities
        /\ activities'[1].id = timers'[Len(timers')].id

\* a timeout removes the one activity it was set for and no other
C24_FireStep ==
    Len(timers') = Len(timers) - 1 =>
        /\ Len(activities') = Len(activities) - 1
        /\ \A i \in 1..Len(activities') : activities'[i] = activities[i]

C24_DismissedByOwnTimer ==
    [](C24_OwnTimerPending) /\ [][C24_AddStep /\ C24_FireStep]_vars

====
